---- MODULE Spec2Model ----
(***************************************************************************)
(* Model of the connection router of Secure-Chat: the WebSocketHandler     *)
(* service (backend/src/services/wsHandler.js) and the transport events    *)
(* socket.io delivers to it.  Each handler of the class is one action;     *)
(* the two Maps of the class are the Presence Table.                       *)
(***************************************************************************)
EXTENDS Integers, Sequences, FiniteSets, TLC

\* ------------------------------------------------------------------------
\* Bounds of the model
\* ------------------------------------------------------------------------

\* number of transport connections (socket ids) that can ever be opened
NumHandles == 3

Handles == 1..NumHandles

\* ------------------------------------------------------------------------
\* JavaScript values carried by client payloads
\* ------------------------------------------------------------------------

\* the value of a field that is absent from a payload (JS undefined)
UNDEFINED == "<undefined>"

\* identities a client may claim
Usernames == {"alice", "bob"}

\* JS truthiness of the string-or-undefined values used below: !v
Falsy(v) == v \in {UNDEFINED, ""}

\* values a client can put in a field that is meant to carry an identity:
\* a name, the empty string, or nothing
NameInputs == Usernames \cup {"", UNDEFINED}

\* ciphertexts a client sends
Contents == {"ct1", "ct2"}

\* a reading of Date.now()
Now == "now"

\* tokens `msg_${Date.now()}_${Math.random()...}` can evaluate to
GeneratedIds == {"msg_1", "msg_2"}

\* payload of an 'authenticate' event; hasPayload = FALSE is an event
\* emitted by the client without an argument (authData is undefined)
AuthInputs ==
    {[hasPayload |-> TRUE, username |-> u] : u \in NameInputs}
      \cup {[hasPayload |-> FALSE, username |-> UNDEFINED]}

\* values of the encryptedContent field
ContentInputs == Contents \cup {"", UNDEFINED}

\* values of the id and messageId fields
IdInputs == {"m1", UNDEFINED}

\* values of the timestamp field
TimestampInputs == {"t1", UNDEFINED}

\* values of a `from` field a client adds to a sendMessage payload; the
\* handler does not read the field
FromInputs == Usernames

\* payloads of a 'sendMessage' event: every combination of the fields the
\* handler reads, the well-formed payloads that also carry a `from` field,
\* and the event emitted without a payload (messageData is undefined)
SendInputs ==
    {[hasPayload |-> TRUE, to |-> t, encryptedContent |-> c,
      timestamp |-> ts, id |-> i, from |-> UNDEFINED] :
        t \in NameInputs, c \in ContentInputs,
        ts \in TimestampInputs, i \in IdInputs}
      \cup {[hasPayload |-> TRUE, to |-> t, encryptedContent |-> "ct1",
             timestamp |-> "t1", id |-> i, from |-> f] :
               t \in Usernames, i \in IdInputs, f \in FromInputs}
      \cup {[hasPayload |-> FALSE, to |-> UNDEFINED,
             encryptedContent |-> UNDEFINED, timestamp |-> UNDEFINED,
             id |-> UNDEFINED, from |-> UNDEFINED]}

\* payloads of a 'messageReceived' event
ReceivedInputs ==
    {[hasPayload |-> TRUE, messageId |-> i, from |-> f] :
        i \in IdInputs, f \in NameInputs}
      \cup {[hasPayload |-> FALSE, messageId |-> UNDEFINED,
             from |-> UNDEFINED]}

\* payloads of a 'typing' event
TypingInputs ==
    {[hasPayload |-> TRUE, to |-> t, isTyping |-> b] :
        t \in NameInputs, b \in BOOLEAN}
      \cup {[hasPayload |-> FALSE, to |-> UNDEFINED, isTyping |-> FALSE]}

\* bodies of a POST /websocket/broadcast request
BroadcastInputs ==
    {[message |-> m, type |-> t] :
        m \in {"notice", "", UNDEFINED}, t \in {"maintenance", UNDEFINED}}

\* ------------------------------------------------------------------------
\* State
\* ------------------------------------------------------------------------

VARIABLES
    sockets,         \* transport state of each socket id: "new", "open", "closed"
    connectedUsers,  \* Map username -> socket.id
    userSockets,     \* Map socket.id -> user data {username}
    emitted,         \* events the running handler put on connections
    lastOp,          \* the event the running handler was called for, with
                     \* its payload; NoOp while the event loop is idle
    inbox,           \* per socket, the sendMessage packets the transport has
                     \* received and not yet handed to the listener, oldest
                     \* first
    client,          \* the state of one chat client (ChatWindow): the status
                     \* of the message it sent, its pending 100 ms timer and
                     \* its otherUserTyping flag
    forwarded        \* history: the message events the router has emitted,
                     \* each with the identity of the connection it went to

vars == <<sockets, connectedUsers, userSockets, emitted, lastOp, inbox,
         client, forwarded>>

\* the chat client under study: the socket it opened (io(socketUrl)), the
\* user it runs for and the user it chats with
ClientSock == 1
CurrentUser == "alice"
ChatUser == "bob"

\* the id the client gives the message it sends
ClientMessageId == "m1"

\* useState: no message sent, no timer, otherUserTyping false
ClientInit == [status |-> "none", timer |-> FALSE, otherUserTyping |-> FALSE]

\* ------------------------------------------------------------------------
\* Map operations (JS Map over a TLA+ function with a finite domain)
\* ------------------------------------------------------------------------

EmptyMap == <<>>

MapHas(m, k) == k \in DOMAIN m

MapSet(m, k, v) == [x \in (DOMAIN m) \cup {k} |-> IF x = k THEN v ELSE m[x]]

MapDelete(m, k) == [x \in (DOMAIN m) \ {k} |-> m[x]]

MapSize(m) == Cardinality(DOMAIN m)

\* ------------------------------------------------------------------------
\* Transport: what socket.io does with an emit
\* ------------------------------------------------------------------------

OpenSockets == {h \in Handles : sockets[h] = "open"}

Event(h, type, body) == [sock |-> h, type |-> type, body |-> body]

\* socket.emit(type, body) on the socket whose handler is running
SocketEmit(h, type, body) == <<Event(h, type, body)>>

\* io.to(room).emit(type, body): the router emits the event to the room
\* named by a socket id
IoToEmit(room, type, body) == <<Event(room, type, body)>>

\* what the transport does with the emitted events: the room named by a
\* socket id holds that socket while it is connected and is empty after it
\* closed, so an event emitted to a closed socket reaches no client
Delivered(events) == SelectSeq(events, LAMBDA e : e.sock \in OpenSockets)

\* ------------------------------------------------------------------------
\* Presence queries
\* ------------------------------------------------------------------------

\* a count taken from the other Map, the one keyed by socket id
getConnectedUsersCount_FromSockets == MapSize(userSockets)

getConnectedUsersCount == MapSize(connectedUsers)

getConnectedUsernames == DOMAIN connectedUsers

isUserOnline(username) == MapHas(connectedUsers, username)

\* ------------------------------------------------------------------------
\* Initial state
\* ------------------------------------------------------------------------

NoOp == [op |-> "none", sock |-> 0]

Init ==
    /\ sockets = [h \in Handles |-> "new"]
    /\ connectedUsers = EmptyMap
    /\ userSockets = EmptyMap
    /\ emitted = <<>>
    /\ lastOp = NoOp
    /\ inbox = [h \in Handles |-> <<>>]
    /\ client = ClientInit
    /\ forwarded = {}

\* ------------------------------------------------------------------------
\* Handlers
\* ------------------------------------------------------------------------

\* io.on('connection'): a socket with a fresh id is handed to the router;
\* the ids are opaque and never reused, the model numbers them in the order
\* in which the connections are made
Connection(h) ==
    /\ lastOp = NoOp
    /\ sockets[h] = "new"
    /\ \A k \in Handles : k < h => sockets[k] # "new"
    /\ sockets' = [sockets EXCEPT ![h] = "open"]
    /\ emitted' = <<>>
    /\ lastOp' = [op |-> "connection", sock |-> h]
    /\ UNCHANGED <<connectedUsers, userSockets>>
    /\ UNCHANGED <<inbox, client, forwarded>>

\* a router in which the first connection to claim a name keeps it
AuthConnectedUsers_FirstWins(h, authData) ==
    IF authData.hasPayload /\ ~Falsy(authData.username)
          /\ ~MapHas(connectedUsers, authData.username)
    THEN MapSet(connectedUsers, authData.username, h)
    ELSE connectedUsers

\* the table and the events handleAuthentication produces
AuthConnectedUsers(h, authData) ==
    IF authData.hasPayload /\ ~Falsy(authData.username)
    THEN MapSet(connectedUsers, authData.username, h)
    ELSE connectedUsers

\* a router that stores the user data without looking at the username
AuthUserSockets_NoValidation(h, authData) ==
    IF authData.hasPayload
    THEN MapSet(userSockets, h, [username |-> authData.username])
    ELSE userSockets

\* a router that ends the session of a socket whose authenticate is refused
AuthUserSockets_RefusalLogsOut(h, authData) ==
    IF authData.hasPayload /\ ~Falsy(authData.username)
    THEN MapSet(userSockets, h, [username |-> authData.username])
    ELSE IF MapHas(userSockets, h) THEN MapDelete(userSockets, h)
    ELSE userSockets

AuthUserSockets(h, authData) ==
    IF authData.hasPayload /\ ~Falsy(authData.username)
    THEN MapSet(userSockets, h, [username |-> authData.username])
    ELSE userSockets

\* a router that tells the connection that held the name that it was
\* replaced
AuthEmitted_NotifiesReplaced(h, authData) ==
    IF ~authData.hasPayload
    THEN SocketEmit(h, "authError", [error |-> "Authentication failed"])
    ELSE IF Falsy(authData.username)
    THEN SocketEmit(h, "authError", [error |-> "Username is required"])
    ELSE (IF MapHas(connectedUsers, authData.username)
             /\ connectedUsers[authData.username] # h
          THEN IoToEmit(connectedUsers[authData.username], "sessionReplaced",
                        [username |-> authData.username])
          ELSE <<>>)
         \o SocketEmit(h, "authenticated",
                       [success |-> TRUE, username |-> authData.username])

AuthEmitted(h, authData) ==
    IF ~authData.hasPayload
    THEN SocketEmit(h, "authError", [error |-> "Authentication failed"])
    ELSE IF Falsy(authData.username)
    THEN SocketEmit(h, "authError", [error |-> "Username is required"])
    ELSE SocketEmit(h, "authenticated",
                    [success |-> TRUE, username |-> authData.username])

handleAuthentication(h, authData) ==
    /\ lastOp = NoOp
    /\ sockets[h] = "open"
    /\ connectedUsers' = AuthConnectedUsers(h, authData)
    /\ userSockets' = AuthUserSockets(h, authData)
    /\ emitted' = AuthEmitted(h, authData)
    /\ lastOp' = [op |-> "authenticate", sock |-> h, data |-> authData]
    /\ UNCHANGED sockets
    /\ UNCHANGED <<inbox, client, forwarded>>

\* the table after handleDisconnection
DisconnectConnectedUsers(h) ==
    IF MapHas(userSockets, h)
    THEN MapDelete(connectedUsers, userSockets[h].username)
    ELSE connectedUsers

\* a router that keeps the user data of a connection that closed
DisconnectUserSockets_Keeps(h) == userSockets

DisconnectUserSockets(h) ==
    IF MapHas(userSockets, h) THEN MapDelete(userSockets, h) ELSE userSockets

\* a router that tells another open connection that the user went offline
handleDisconnection_NotifiesPeer(h) ==
    /\ lastOp = NoOp
    /\ sockets[h] = "open"
    /\ sockets' = [sockets EXCEPT ![h] = "closed"]
    /\ connectedUsers' = DisconnectConnectedUsers(h)
    /\ userSockets' = DisconnectUserSockets(h)
    /\ emitted' = IF MapHas(userSockets, h) /\ OpenSockets \ {h} # {}
                  THEN <<Event(CHOOSE k \in OpenSockets \ {h} :
                                  \A j \in OpenSockets \ {h} : k <= j,
                               "userOffline",
                               [username |-> userSockets[h].username])>>
                  ELSE <<>>
    /\ lastOp' = [op |-> "disconnect", sock |-> h]
    /\ inbox' = [inbox EXCEPT ![h] = <<>>]
    /\ UNCHANGED <<client, forwarded>>

\* socket.on('disconnect'): the transport closed the connection
handleDisconnection(h) ==
    /\ lastOp = NoOp
    /\ sockets[h] = "open"
    /\ sockets' = [sockets EXCEPT ![h] = "closed"]
    /\ connectedUsers' = DisconnectConnectedUsers(h)
    /\ userSockets' = DisconnectUserSockets(h)
    /\ emitted' = <<>>
    /\ lastOp' = [op |-> "disconnect", sock |-> h]
    /\ inbox' = [inbox EXCEPT ![h] = <<>>]
    /\ UNCHANGED <<client, forwarded>>

\* the user data the router holds for the socket (Map.get), read only
\* where MapHas(userSockets, h)
SenderName(h) == userSockets[h].username

\* a router that always generates the id
ResolveId_AlwaysGenerated(id, generated) == generated

\* const messageId = id || `msg_...`
ResolveId(id, generated) == IF Falsy(id) THEN generated ELSE id

\* a router that lets the payload name the sender
MessagePayload_TrustsPayload(h, messageData, messageId) ==
    [id |-> messageId,
     from |-> IF Falsy(messageData.from) THEN SenderName(h)
              ELSE messageData.from,
     to |-> messageData.to,
     content |-> messageData.encryptedContent,
     timestamp |-> IF Falsy(messageData.timestamp) THEN Now
                   ELSE messageData.timestamp,
     deliveredAt |-> Now]

\* the messagePayload object of handleMessageSend
MessagePayload(h, messageData, messageId) ==
    [id |-> messageId,
     from |-> SenderName(h),
     to |-> messageData.to,
     content |-> messageData.encryptedContent,
     timestamp |-> IF Falsy(messageData.timestamp) THEN Now
                   ELSE messageData.timestamp,
     deliveredAt |-> Now]

\* the messageDelivered receipts of handleMessageSend
DeliveredReceipt(messageId) ==
    [messageId |-> messageId, status |-> "delivered", timestamp |-> Now]

FailedReceipt(messageId) ==
    [messageId |-> messageId, status |-> "failed",
     error |-> "Recipient is offline", timestamp |-> Now]

\* a router that emits the message on the socket of the sender
SendRouted_EchoToSender(h, messageData, messageId) ==
    IF MapHas(connectedUsers, messageData.to)
    THEN SocketEmit(h, "message", MessagePayload(h, messageData, messageId))
         \o SocketEmit(h, "messageDelivered", DeliveredReceipt(messageId))
    ELSE SocketEmit(h, "messageDelivered", FailedReceipt(messageId))

\* a router that answers a send to an absent recipient with an error event
SendRouted_OfflineIsError(h, messageData, messageId) ==
    IF MapHas(connectedUsers, messageData.to)
    THEN IoToEmit(connectedUsers[messageData.to], "message",
                  MessagePayload(h, messageData, messageId))
         \o SocketEmit(h, "messageDelivered", DeliveredReceipt(messageId))
    ELSE SocketEmit(h, "error", [error |-> "Recipient is offline"])

\* a router that emits the message a second time
SendRouted_Retries(h, messageData, messageId) ==
    IF MapHas(connectedUsers, messageData.to)
    THEN IoToEmit(connectedUsers[messageData.to], "message",
                  MessagePayload(h, messageData, messageId))
         \o IoToEmit(connectedUsers[messageData.to], "message",
                     MessagePayload(h, messageData, messageId))
         \o SocketEmit(h, "messageDelivered", DeliveredReceipt(messageId))
    ELSE SocketEmit(h, "messageDelivered", FailedReceipt(messageId))

\* a router that looks into the content and refuses one of the contents
SendRouted_FiltersContent(h, messageData, messageId) ==
    IF MapHas(connectedUsers, messageData.to)
          /\ messageData.encryptedContent # "ct2"
    THEN IoToEmit(connectedUsers[messageData.to], "message",
                  MessagePayload(h, messageData, messageId))
         \o SocketEmit(h, "messageDelivered", DeliveredReceipt(messageId))
    ELSE SocketEmit(h, "messageDelivered", FailedReceipt(messageId))

\* a router that acknowledges the send before it forwards the message
SendRouted_ReceiptFirst(h, messageData, messageId) ==
    IF MapHas(connectedUsers, messageData.to)
    THEN SocketEmit(h, "messageDelivered", DeliveredReceipt(messageId))
         \o IoToEmit(connectedUsers[messageData.to], "message",
                     MessagePayload(h, messageData, messageId))
    ELSE SocketEmit(h, "messageDelivered", FailedReceipt(messageId))

\* a router that says nothing to the sender when the recipient is absent
SendRouted_SilentWhenOffline(h, messageData, messageId) ==
    IF MapHas(connectedUsers, messageData.to)
    THEN IoToEmit(connectedUsers[messageData.to], "message",
                  MessagePayload(h, messageData, messageId))
         \o SocketEmit(h, "messageDelivered", DeliveredReceipt(messageId))
    ELSE <<>>

\* the lookup of the recipient and the two branches that follow it
SendRouted(h, messageData, messageId) ==
    IF MapHas(connectedUsers, messageData.to)
    THEN IoToEmit(connectedUsers[messageData.to], "message",
                  MessagePayload(h, messageData, messageId))
         \o SocketEmit(h, "messageDelivered", DeliveredReceipt(messageId))
    ELSE SocketEmit(h, "messageDelivered", FailedReceipt(messageId))

\* a router that forwards the sends of connections it holds no user data for
SendEmitted_NoAuthCheck(h, messageData, generated) ==
    IF ~messageData.hasPayload
    THEN SocketEmit(h, "error", [error |-> "Message send failed"])
    ELSE IF Falsy(messageData.to) \/ Falsy(messageData.encryptedContent)
    THEN SocketEmit(h, "error",
                    [error |-> "Recipient and message content are required"])
    ELSE IF MapHas(userSockets, h)
    THEN SendRouted(h, messageData, ResolveId(messageData.id, generated))
    ELSE IF MapHas(connectedUsers, messageData.to)
    THEN IoToEmit(connectedUsers[messageData.to], "message",
                  [id |-> ResolveId(messageData.id, generated),
                   from |-> UNDEFINED,
                   to |-> messageData.to,
                   content |-> messageData.encryptedContent,
                   timestamp |-> Now,
                   deliveredAt |-> Now])
         \o SocketEmit(h, "messageDelivered",
                       DeliveredReceipt(ResolveId(messageData.id, generated)))
    ELSE SocketEmit(h, "messageDelivered",
                    FailedReceipt(ResolveId(messageData.id, generated)))

\* a router that validates the recipient but not the content
SendEmitted_NoContentCheck(h, messageData, generated) ==
    IF ~MapHas(userSockets, h)
    THEN SocketEmit(h, "error", [error |-> "Not authenticated"])
    ELSE IF ~messageData.hasPayload
    THEN SocketEmit(h, "error", [error |-> "Message send failed"])
    ELSE IF Falsy(messageData.to)
    THEN SocketEmit(h, "error",
                    [error |-> "Recipient and message content are required"])
    ELSE SendRouted(h, messageData, ResolveId(messageData.id, generated))

\* the events handleMessageSend produces
SendEmitted(h, messageData, generated) ==
    IF ~MapHas(userSockets, h)
    THEN SocketEmit(h, "error", [error |-> "Not authenticated"])
    ELSE IF ~messageData.hasPayload
    THEN SocketEmit(h, "error", [error |-> "Message send failed"])
    ELSE IF Falsy(messageData.to) \/ Falsy(messageData.encryptedContent)
    THEN SocketEmit(h, "error",
                    [error |-> "Recipient and message content are required"])
    ELSE SendRouted(h, messageData, ResolveId(messageData.id, generated))

\* the evaluations of the generated token that can make a difference: the
\* token is only looked at when the client supplied no id
GeneratedChoices(messageData) ==
    IF Falsy(messageData.id) THEN GeneratedIds
    ELSE {CHOOSE g \in GeneratedIds : TRUE}

\* a router that binds the name of the sender to the sending socket again
\* on every send
handleMessageSend_RefreshesBinding(h, messageData) ==
    /\ lastOp = NoOp
    /\ sockets[h] = "open"
    /\ \E generated \in GeneratedChoices(messageData) :
          emitted' = SendEmitted(h, messageData, generated)
    /\ connectedUsers' = IF MapHas(userSockets, h)
                         THEN MapSet(connectedUsers, SenderName(h), h)
                         ELSE connectedUsers
    /\ lastOp' = [op |-> "sendMessage", sock |-> h, data |-> messageData]
    /\ UNCHANGED <<sockets, userSockets>>
    /\ UNCHANGED <<inbox, client, forwarded>>

\* socket.on('sendMessage')
handleMessageSend(h, messageData) ==
    /\ lastOp = NoOp
    /\ sockets[h] = "open"
    /\ \E generated \in GeneratedChoices(messageData) :
          emitted' = SendEmitted(h, messageData, generated)
    /\ lastOp' = [op |-> "sendMessage", sock |-> h, data |-> messageData]
    /\ UNCHANGED <<sockets, connectedUsers, userSockets>>
    /\ UNCHANGED <<inbox, client, forwarded>>

\* a router that emits the read confirmation on the confirming socket
ReceivedEmitted_ToConfirmer(h, confirmationData) ==
    IF ~MapHas(userSockets, h) THEN <<>>
    ELSE IF ~confirmationData.hasPayload THEN <<>>
    ELSE IF MapHas(connectedUsers, confirmationData.from)
    THEN SocketEmit(h, "messageRead",
                    [messageId |-> confirmationData.messageId,
                     readBy |-> SenderName(h),
                     timestamp |-> Now])
    ELSE <<>>

\* a router that reports an absent sender to the confirming connection
ReceivedEmitted_ErrorWhenAbsent(h, confirmationData) ==
    IF ~MapHas(userSockets, h) THEN <<>>
    ELSE IF ~confirmationData.hasPayload THEN <<>>
    ELSE IF MapHas(connectedUsers, confirmationData.from)
    THEN IoToEmit(connectedUsers[confirmationData.from], "messageRead",
                  [messageId |-> confirmationData.messageId,
                   readBy |-> SenderName(h),
                   timestamp |-> Now])
    ELSE SocketEmit(h, "error", [error |-> "Sender is offline"])

\* the events handleMessageReceived produces
ReceivedEmitted(h, confirmationData) ==
    IF ~MapHas(userSockets, h) THEN <<>>
    ELSE IF ~confirmationData.hasPayload THEN <<>>
    ELSE IF MapHas(connectedUsers, confirmationData.from)
    THEN IoToEmit(connectedUsers[confirmationData.from], "messageRead",
                  [messageId |-> confirmationData.messageId,
                   readBy |-> SenderName(h),
                   timestamp |-> Now])
    ELSE <<>>

\* socket.on('messageReceived')
handleMessageReceived(h, confirmationData) ==
    /\ lastOp = NoOp
    /\ sockets[h] = "open"
    /\ emitted' = ReceivedEmitted(h, confirmationData)
    /\ lastOp' = [op |-> "messageReceived", sock |-> h,
                  data |-> confirmationData]
    /\ UNCHANGED <<sockets, connectedUsers, userSockets>>
    /\ UNCHANGED <<inbox, client, forwarded>>

\* a router that relays the start of typing only
TypingEmitted_OnlyWhenTyping(h, typingData) ==
    IF ~MapHas(userSockets, h) THEN <<>>
    ELSE IF ~typingData.hasPayload THEN <<>>
    ELSE IF MapHas(connectedUsers, typingData.to) /\ typingData.isTyping
    THEN IoToEmit(connectedUsers[typingData.to], "userTyping",
                  [from |-> SenderName(h),
                   isTyping |-> typingData.isTyping])
    ELSE <<>>

\* a router that reports an absent recipient to the typing connection
TypingEmitted_ErrorWhenAbsent(h, typingData) ==
    IF ~MapHas(userSockets, h) THEN <<>>
    ELSE IF ~typingData.hasPayload THEN <<>>
    ELSE IF MapHas(connectedUsers, typingData.to)
    THEN IoToEmit(connectedUsers[typingData.to], "userTyping",
                  [from |-> SenderName(h),
                   isTyping |-> typingData.isTyping])
    ELSE SocketEmit(h, "error", [error |-> "Recipient is offline"])

\* a router that relays the typing signals of connections it holds no user
\* data for
TypingEmitted_NoAuthCheck(h, typingData) ==
    IF ~typingData.hasPayload THEN <<>>
    ELSE IF MapHas(connectedUsers, typingData.to)
    THEN IoToEmit(connectedUsers[typingData.to], "userTyping",
                  [from |-> IF MapHas(userSockets, h) THEN SenderName(h)
                            ELSE UNDEFINED,
                   isTyping |-> typingData.isTyping])
    ELSE <<>>

\* the events handleTyping produces
TypingEmitted(h, typingData) ==
    IF ~MapHas(userSockets, h) THEN <<>>
    ELSE IF ~typingData.hasPayload THEN <<>>
    ELSE IF MapHas(connectedUsers, typingData.to)
    THEN IoToEmit(connectedUsers[typingData.to], "userTyping",
                  [from |-> SenderName(h),
                   isTyping |-> typingData.isTyping])
    ELSE <<>>

\* socket.on('typing')
handleTyping(h, typingData) ==
    /\ lastOp = NoOp
    /\ sockets[h] = "open"
    /\ emitted' = TypingEmitted(h, typingData)
    /\ lastOp' = [op |-> "typing", sock |-> h, data |-> typingData]
    /\ UNCHANGED <<sockets, connectedUsers, userSockets>>
    /\ UNCHANGED <<inbox, client, forwarded>>

\* a router that forgets the user of a socket whose transport failed
SocketError_DropsUser(h) ==
    /\ lastOp = NoOp
    /\ sockets[h] = "open"
    /\ emitted' = <<>>
    /\ lastOp' = [op |-> "error", sock |-> h]
    /\ connectedUsers' = DisconnectConnectedUsers(h)
    /\ userSockets' = DisconnectUserSockets(h)
    /\ UNCHANGED sockets
    /\ UNCHANGED <<inbox, client, forwarded>>

\* a router that treats a transport error as the end of the connection
SocketError_Disconnects(h) ==
    /\ lastOp = NoOp
    /\ sockets[h] = "open"
    /\ sockets' = [sockets EXCEPT ![h] = "closed"]
    /\ connectedUsers' = DisconnectConnectedUsers(h)
    /\ userSockets' = DisconnectUserSockets(h)
    /\ emitted' = <<>>
    /\ lastOp' = [op |-> "error", sock |-> h]
    /\ inbox' = [inbox EXCEPT ![h] = <<>>]
    /\ UNCHANGED <<client, forwarded>>

\* socket.on('error'): the transport reports an error, the router logs it
SocketError(h) ==
    /\ lastOp = NoOp
    /\ sockets[h] = "open"
    /\ emitted' = <<>>
    /\ lastOp' = [op |-> "error", sock |-> h]
    /\ UNCHANGED <<sockets, connectedUsers, userSockets>>
    /\ UNCHANGED <<inbox, client, forwarded>>

\* the i-th socket of the namespace, in the order of connection
NthOpenSocket(i) ==
    CHOOSE h \in OpenSockets : Cardinality({k \in OpenSockets : k < h}) = i - 1

\* io.emit(type, body): the event goes to every connected socket
IoEmit(type, body) ==
    [i \in 1..Cardinality(OpenSockets) |-> Event(NthOpenSocket(i), type, body)]

\* the status of the response of POST /websocket/broadcast
BroadcastStatus(body) == IF Falsy(body.message) THEN 400 ELSE 200

\* an endpoint that reaches the identified connections only
BroadcastEmitted_IdentifiedOnly(body) ==
    IF Falsy(body.message) THEN <<>>
    ELSE SelectSeq(IoEmit("systemBroadcast",
                          [type |-> IF body.type = UNDEFINED
                                    THEN "announcement" ELSE body.type,
                           message |-> body.message,
                           timestamp |-> Now,
                           broadcastId |-> "broadcast_now"]),
                   LAMBDA e : MapHas(userSockets, e.sock))

\* the events POST /websocket/broadcast produces
BroadcastEmitted(body) ==
    IF Falsy(body.message) THEN <<>>
    ELSE IoEmit("systemBroadcast",
                [type |-> IF body.type = UNDEFINED THEN "announcement"
                          ELSE body.type,
                 message |-> body.message,
                 timestamp |-> Now,
                 broadcastId |-> "broadcast_now"])

\* router.post('/websocket/broadcast')
Broadcast(body) ==
    /\ lastOp = NoOp
    /\ emitted' = BroadcastEmitted(body)
    /\ lastOp' = [op |-> "broadcast", sock |-> 0, data |-> body,
                  status |-> BroadcastStatus(body)]
    /\ UNCHANGED <<sockets, connectedUsers, userSockets>>
    /\ UNCHANGED <<inbox, client, forwarded>>

\* the body of the response of GET /websocket/status; connectedUsernames
\* is an array in the order of the Map's keys and is kept here as the set of
\* its elements
StatusResponse ==
    [success |-> TRUE,
     status |-> "active",
     connectedUsers |-> getConnectedUsersCount,
     connectedUsernames |-> getConnectedUsernames]

\* router.get('/websocket/status')
WebSocketStatus ==
    /\ lastOp = NoOp
    /\ emitted' = <<>>
    /\ lastOp' = [op |-> "status", sock |-> 0, response |-> StatusResponse]
    /\ UNCHANGED <<sockets, connectedUsers, userSockets>>
    /\ UNCHANGED <<inbox, client, forwarded>>

\* the body of the response of GET /websocket/user/:username/status
UserStatusResponse(username) ==
    [success |-> TRUE,
     username |-> username,
     isOnline |-> isUserOnline(username),
     checkedAt |-> Now]

\* router.get('/websocket/user/:username/status')
UserStatus(username) ==
    /\ lastOp = NoOp
    /\ emitted' = <<>>
    /\ lastOp' = [op |-> "userStatus", sock |-> 0,
                  response |-> UserStatusResponse(username)]
    /\ UNCHANGED <<sockets, connectedUsers, userSockets>>
    /\ UNCHANGED <<inbox, client, forwarded>>

\* the handler returns to the event loop, which takes the emitted packets
\* away before it calls the next handler: handlers run one at a time, each
\* to completion
Return ==
    /\ lastOp # NoOp
    /\ emitted' = <<>>
    /\ lastOp' = NoOp
    /\ UNCHANGED <<sockets, connectedUsers, userSockets>>
    /\ UNCHANGED <<inbox, client, forwarded>>

Next ==
    \/ \E h \in Handles : Connection(h)
    \/ \E h \in Handles, authData \in AuthInputs : handleAuthentication(h, authData)
    \/ \E h \in Handles, messageData \in SendInputs : handleMessageSend(h, messageData)
    \/ \E h \in Handles, confirmationData \in ReceivedInputs :
          handleMessageReceived(h, confirmationData)
    \/ \E h \in Handles, typingData \in TypingInputs : handleTyping(h, typingData)
    \/ \E h \in Handles : SocketError(h)
    \/ \E h \in Handles : handleDisconnection(h)
    \/ \E body \in BroadcastInputs : Broadcast(body)
    \/ WebSocketStatus
    \/ \E username \in Usernames : UserStatus(username)
    \/ Return

Spec == Init /\ [][Next]_vars

\* ------------------------------------------------------------------------
\* Arrival and handling of sendMessage packets as separate steps
\* ------------------------------------------------------------------------

\* the connections of the runs with an inbox, and the number of packets
\* that may be waiting at a time
NumOrderHandles == 2

OrderHandles == 1..NumOrderHandles

MaxPending == 2

\* the ids a client gives the packets it has in flight
PacketIds == {"m1", "m2"}

PacketInputs ==
    {[hasPayload |-> TRUE, to |-> t, encryptedContent |-> "ct1",
      timestamp |-> "t1", id |-> i, from |-> UNDEFINED] :
        t \in Usernames, i \in PacketIds}

\* the ids of the packets waiting on socket h
PendingIds(h) == {inbox[h][i].id : i \in 1..Len(inbox[h])}

\* the number of packets waiting on the sockets 1..n
RECURSIVE Pending(_)
Pending(n) == IF n = 0 THEN 0 ELSE Len(inbox[n]) + Pending(n - 1)

\* the transport receives a sendMessage packet of the client of socket h,
\* between two runs of a handler; the client gives it an id that none of
\* its waiting packets has
PacketArrives(h, messageData) ==
    /\ lastOp = NoOp
    /\ sockets[h] = "open"
    /\ Pending(NumHandles) < MaxPending
    /\ messageData.id \notin PendingIds(h)
    /\ inbox' = [inbox EXCEPT ![h] = Append(@, messageData)]
    /\ UNCHANGED <<client, forwarded>>
    /\ UNCHANGED <<sockets, connectedUsers, userSockets, emitted, lastOp>>

\* the sequence without its i-th element
RemoveAt(seq, i) == SubSeq(seq, 1, i - 1) \o SubSeq(seq, i + 1, Len(seq))

\* a listener that defers the handling of a packet, so that the packets
\* of a socket are handled in any order
onSendMessage_Deferred(h) ==
    /\ lastOp = NoOp
    /\ sockets[h] = "open"
    /\ \E i \in 1..Len(inbox[h]) :
          /\ \E generated \in GeneratedChoices(inbox[h][i]) :
                emitted' = SendEmitted(h, inbox[h][i], generated)
          /\ lastOp' = [op |-> "sendMessage", sock |-> h, data |-> inbox[h][i]]
          /\ inbox' = [inbox EXCEPT ![h] = RemoveAt(@, i)]
          /\ UNCHANGED <<client, forwarded>>
    /\ UNCHANGED <<sockets, connectedUsers, userSockets>>

\* socket.on('sendMessage'): the listener is called with the oldest packet
\* waiting on the socket and runs handleMessageSend to its end
onSendMessage(h) ==
    /\ lastOp = NoOp
    /\ sockets[h] = "open"
    /\ inbox[h] # <<>>
    /\ \E generated \in GeneratedChoices(Head(inbox[h])) :
          emitted' = SendEmitted(h, Head(inbox[h]), generated)
    /\ lastOp' = [op |-> "sendMessage", sock |-> h, data |-> Head(inbox[h])]
    /\ inbox' = [inbox EXCEPT ![h] = Tail(@)]
    /\ UNCHANGED <<client, forwarded>>
    /\ UNCHANGED <<sockets, connectedUsers, userSockets>>

NextOrder ==
    \/ \E h \in OrderHandles : Connection(h)
    \/ \E h \in OrderHandles, authData \in AuthInputs :
          handleAuthentication(h, authData)
    \/ \E h \in OrderHandles, messageData \in PacketInputs :
          PacketArrives(h, messageData)
    \/ \E h \in OrderHandles : onSendMessage(h)
    \/ \E h \in OrderHandles : handleDisconnection(h)
    \/ Return

SpecOrder == Init /\ [][NextOrder]_vars

\* ------------------------------------------------------------------------
\* Runs that record the forwarded messages
\* ------------------------------------------------------------------------

\* the identity the router holds for connection h, if any
IdentityOf(h) ==
    IF MapHas(userSockets, h) THEN userSockets[h].username ELSE UNDEFINED

\* the message events among the emitted events: the id and the sender of
\* each, with the identity of the connection it was emitted to
ForwardedBy(events) ==
    {[id |-> events[i].body.id,
      from |-> events[i].body.from,
      readBy |-> IdentityOf(events[i].sock)] :
        i \in {j \in 1..Len(events) : events[j].type = "message"}}

\* the sends of these runs: the well-formed sends with the id m1
RecordedSends ==
    {m \in SendInputs :
        /\ m.hasPayload
        /\ m.to \in Usernames
        /\ m.encryptedContent = "ct1"
        /\ m.timestamp = "t1"
        /\ m.from = UNDEFINED
        /\ m.id = "m1"}

\* the handler returns; the messages it forwarded enter the history
ReturnRecorded ==
    /\ lastOp # NoOp
    /\ forwarded' = forwarded \cup ForwardedBy(emitted)
    /\ emitted' = <<>>
    /\ lastOp' = NoOp
    /\ UNCHANGED <<sockets, connectedUsers, userSockets>>
    /\ UNCHANGED <<inbox, client>>

NextRead ==
    \/ \E h \in OrderHandles : Connection(h)
    \/ \E h \in OrderHandles, authData \in AuthInputs :
          handleAuthentication(h, authData)
    \/ \E h \in OrderHandles, messageData \in RecordedSends :
          handleMessageSend(h, messageData)
    \/ \E h \in OrderHandles, confirmationData \in ReceivedInputs :
          handleMessageReceived(h, confirmationData)
    \/ \E h \in OrderHandles : handleDisconnection(h)
    \/ ReturnRecorded

SpecRead == Init /\ [][NextRead]_vars

\* ------------------------------------------------------------------------
\* Runs with the chat client (ChatWindow) on one connection
\* ------------------------------------------------------------------------

\* newSocket.on('connect'): the client identifies as its user
ClientAuthData == [hasPayload |-> TRUE, username |-> CurrentUser]

\* the sendMessage packet the client emits
ClientPacket ==
    [hasPayload |-> TRUE, to |-> ChatUser, encryptedContent |-> "ct1",
     timestamp |-> "t1", id |-> ClientMessageId, from |-> UNDEFINED]

\* sendMessage of the client: the message is added with status sending,
\* the packet is emitted and the 100 ms timer is started; the client has
\* identified on its connection before, and it sends one message
ClientSendMessage ==
    /\ sockets[ClientSock] = "open"
    /\ MapHas(userSockets, ClientSock)
    /\ client.status = "none"
    /\ client' = [client EXCEPT !.status = "sending", !.timer = TRUE]
    /\ inbox' = [inbox EXCEPT ![ClientSock] = Append(@, ClientPacket)]
    /\ UNCHANGED <<sockets, connectedUsers, userSockets, emitted, lastOp>>
    /\ UNCHANGED forwarded

\* the callback of setTimeout(..., 100): the message gets the status sent
ClientTimeout ==
    /\ client.timer
    /\ client' = [client EXCEPT !.status = "sent", !.timer = FALSE]
    /\ UNCHANGED <<sockets, connectedUsers, userSockets, emitted, lastOp>>
    /\ UNCHANGED <<inbox, forwarded>>

\* the listeners of the client socket: messageDelivered sets the status of
\* the message with the id of the receipt, typing sets otherUserTyping when
\* it names the chat partner; the events without a listener that changes
\* the state shown are dropped
ClientOn(c, e) ==
    IF e.type = "messageDelivered"
    THEN IF c.status # "none" /\ e.body.messageId = ClientMessageId
         THEN [c EXCEPT !.status = IF e.body.status = "failed"
                                   THEN "failed" ELSE "delivered"]
         ELSE c
    ELSE IF e.type = "typing"
    THEN IF e.body.username = ChatUser
         THEN [c EXCEPT !.otherUserTyping = e.body.isTyping]
         ELSE c
    ELSE c

\* the client after its listeners ran for the events, oldest first
RECURSIVE ClientHandle(_, _)
ClientHandle(c, events) ==
    IF events = <<>> THEN c
    ELSE ClientHandle(ClientOn(c, Head(events)), Tail(events))

\* the handler returns; the events it emitted on the connection of the
\* client reach the client, whose listeners run
ReturnToClient ==
    /\ lastOp # NoOp
    /\ client' = ClientHandle(client,
                            SelectSeq(Delivered(emitted),
                                      LAMBDA e : e.sock = ClientSock))
    /\ emitted' = <<>>
    /\ lastOp' = NoOp
    /\ UNCHANGED <<sockets, connectedUsers, userSockets>>
    /\ UNCHANGED <<inbox, forwarded>>

NextClient ==
    \/ \E h \in OrderHandles : Connection(h)
    \/ handleAuthentication(ClientSock, ClientAuthData)
    \/ \E h \in OrderHandles \ {ClientSock}, authData \in AuthInputs :
          handleAuthentication(h, authData)
    \/ ClientSendMessage
    \/ onSendMessage(ClientSock)
    \/ \E h \in OrderHandles \ {ClientSock}, typingData \in TypingInputs :
          handleTyping(h, typingData)
    \/ \E h \in OrderHandles : handleDisconnection(h)
    \/ ClientTimeout
    \/ ReturnToClient

SpecClient == Init /\ [][NextClient]_vars

\* ------------------------------------------------------------------------
\* Vocabulary of the properties
\* ------------------------------------------------------------------------

\* identity u and handle h are bound to each other in both directions
Bound(u, h) ==
    /\ MapHas(connectedUsers, u) /\ connectedUsers[u] = h
    /\ MapHas(userSockets, h) /\ userSockets[h].username = u

\* the handles the table relates to identity u, in either direction
HandlesOf(u) ==
    {h \in Handles :
        \/ MapHas(connectedUsers, u) /\ connectedUsers[u] = h
        \/ MapHas(userSockets, h) /\ userSockets[h].username = u}

\* the events of one type among a sequence of events
OfType(events, type) == SelectSeq(events, LAMBDA e : e.type = type)

\* the events that reached connection h among a sequence of events
OnSock(events, h) == SelectSeq(events, LAMBDA e : e.sock = h)

\* ------------------------------------------------------------------------
\* Presence Table
\* ------------------------------------------------------------------------

\* C1: a disconnect of handle H removes the binding of an identity only if
\* that identity's current binding points at H; every identity bound to
\* another handle keeps its binding (and stays online) across the step.
C1_DisconnectGuard ==
    [][\A u \in Usernames :
          (/\ lastOp'.op = "disconnect"
           /\ MapHas(connectedUsers, u)
           /\ connectedUsers[u] # lastOp'.sock)
          => (MapHas(connectedUsers', u)
              /\ connectedUsers'[u] = connectedUsers[u])]_vars

\* C2: every identity the connected-identities query reports is bound to a
\* connection handle that is currently open.
C2_EntriesPointAtOpenConnections ==
    \A u \in getConnectedUsernames : sockets[connectedUsers[u]] = "open"

\* C3: at every instant at most one connection handle is mapped to a given
\* identity.
C3_OneHandlePerIdentity ==
    \A u \in Usernames : Cardinality(HandlesOf(u)) <= 1

\* C4: the two directions of the table are mutually inverse: u maps to h
\* exactly when h maps to u.
C4_DirectionsInverse ==
    \A u \in Usernames, h \in Handles :
        (MapHas(connectedUsers, u) /\ connectedUsers[u] = h)
          <=> (MapHas(userSockets, h) /\ userSockets[h].username = u)

\* ------------------------------------------------------------------------
\* Message routing
\* ------------------------------------------------------------------------

\* the last event handled is a sendMessage with a recipient and a content
WellFormedSend(op) ==
    /\ op.op = "sendMessage"
    /\ op.data.hasPayload
    /\ ~Falsy(op.data.to)
    /\ ~Falsy(op.data.encryptedContent)

\* the last event handled is a sendMessage lacking a recipient or a content
MalformedSend(op) ==
    /\ op.op = "sendMessage"
    /\ \/ ~op.data.hasPayload
       \/ Falsy(op.data.to)
       \/ Falsy(op.data.encryptedContent)

\* C5: a sendMessage from a connection that is not identified leaves both
\* Maps as they were and emits one event only, the error "Not authenticated"
\* on the sender's own connection, whatever the payload.
C5_UnidentifiedSendInert ==
    [][(lastOp'.op = "sendMessage" /\ ~MapHas(userSockets, lastOp'.sock))
        => /\ connectedUsers' = connectedUsers
           /\ userSockets' = userSockets
           /\ Len(emitted') = 1
           /\ emitted'[1].sock = lastOp'.sock
           /\ emitted'[1].type = "error"
           /\ emitted'[1].body.error = "Not authenticated"]_vars

\* an unidentified connection sent a well-formed message to a recipient that
\* is online on another open connection
C5_Witness ==
    /\ WellFormedSend(lastOp)
    /\ ~MapHas(userSockets, lastOp.sock)
    /\ MapHas(connectedUsers, lastOp.data.to)
    /\ sockets[connectedUsers[lastOp.data.to]] = "open"
    /\ connectedUsers[lastOp.data.to] # lastOp.sock
    /\ Len(emitted) = 1 /\ emitted[1].type = "error"

C7_OfflineReceipt ==
    [][(/\ WellFormedSend(lastOp')
        /\ MapHas(userSockets, lastOp'.sock)
        /\ ~MapHas(connectedUsers, lastOp'.data.to))
        => /\ Len(emitted') = 1
           /\ emitted'[1].sock = lastOp'.sock
           /\ emitted'[1].type = "messageDelivered"
           /\ emitted'[1].body.status = "failed"
           /\ emitted'[1].body.error = "Recipient is offline"]_vars

\* an identified connection sent to an absent identity while another
\* connection was open
C7_Witness ==
    /\ WellFormedSend(lastOp)
    /\ MapHas(userSockets, lastOp.sock)
    /\ ~MapHas(connectedUsers, lastOp.data.to)
    /\ \E h \in Handles \ {lastOp.sock} : sockets[h] = "open"
    /\ Len(emitted) = 1 /\ emitted[1].body.status = "failed"

\* ------------------------------------------------------------------------
\* Session identification
\* ------------------------------------------------------------------------

\* C8: after an authenticate carrying a non-empty username u on connection
\* h, u is bound to h and h to u, isUserOnline(u) is true, and the events of
\* the step are exactly one authenticated {success: true, username: u} on h.
C8_IdentifySucceeds ==
    (/\ lastOp.op = "authenticate"
     /\ lastOp.data.hasPayload
     /\ ~Falsy(lastOp.data.username))
    => /\ Bound(lastOp.data.username, lastOp.sock)
       /\ isUserOnline(lastOp.data.username)
       /\ emitted = <<[sock |-> lastOp.sock, type |-> "authenticated",
                       body |-> [success |-> TRUE,
                                 username |-> lastOp.data.username]]>>

\* a connection identified under a name another open connection had claimed
C8_Witness ==
    /\ lastOp.op = "authenticate"
    /\ lastOp.data.hasPayload
    /\ ~Falsy(lastOp.data.username)
    /\ \E h \in Handles \ {lastOp.sock} :
          /\ sockets[h] = "open"
          /\ MapHas(userSockets, h)
          /\ userSockets[h].username = lastOp.data.username
    /\ connectedUsers[lastOp.data.username] = lastOp.sock

\* C9: an authenticate whose username is missing or empty (or that carries
\* no payload) emits one event only, an authError on the requesting
\* connection, and leaves both Maps as they were.
C9_InvalidIdentifyInert ==
    [][(/\ lastOp'.op = "authenticate"
        /\ (~lastOp'.data.hasPayload \/ Falsy(lastOp'.data.username)))
        => /\ connectedUsers' = connectedUsers
           /\ userSockets' = userSockets
           /\ Len(emitted') = 1
           /\ emitted'[1].sock = lastOp'.sock
           /\ emitted'[1].type = "authError"]_vars

\* a connection that holds a binding sent an authenticate with an empty
\* username and kept the binding
C9_Witness ==
    /\ lastOp.op = "authenticate"
    /\ lastOp.data.hasPayload
    /\ lastOp.data.username = ""
    /\ MapHas(userSockets, lastOp.sock)
    /\ Bound(userSockets[lastOp.sock].username, lastOp.sock)
    /\ Len(emitted) = 1 /\ emitted[1].type = "authError"

\* C10: a sendMessage from an identified connection whose recipient or
\* content is missing or empty emits one event only, an error on the
\* sender's connection (no message, no receipt), and leaves both Maps as
\* they were.
C10_InvalidSendError ==
    [][(MalformedSend(lastOp') /\ MapHas(userSockets, lastOp'.sock))
        => /\ connectedUsers' = connectedUsers
           /\ userSockets' = userSockets
           /\ Len(emitted') = 1
           /\ emitted'[1].sock = lastOp'.sock
           /\ emitted'[1].type = "error"]_vars

\* an identified connection sent an empty content to a recipient that is
\* online on another open connection
C10_Witness ==
    /\ lastOp.op = "sendMessage"
    /\ lastOp.data.hasPayload
    /\ lastOp.data.encryptedContent = ""
    /\ MapHas(userSockets, lastOp.sock)
    /\ MapHas(connectedUsers, lastOp.data.to)
    /\ connectedUsers[lastOp.data.to] # lastOp.sock
    /\ sockets[connectedUsers[lastOp.data.to]] = "open"
    /\ Len(emitted) = 1 /\ emitted[1].type = "error"

\* C11: the `from` field of every forwarded message event is the username
\* the router holds for the sending connection, whatever the payload says,
\* and message events are emitted by the handling of a sendMessage only.
C11_FromIsSessionIdentity ==
    \A i \in 1..Len(emitted) :
        emitted[i].type = "message"
          => /\ lastOp.op = "sendMessage"
             /\ MapHas(userSockets, lastOp.sock)
             /\ emitted[i].body.from = userSockets[lastOp.sock].username

\* a connection sent a payload whose `from` field names another identity
\* than its own, and the message was forwarded
C11_Witness ==
    /\ WellFormedSend(lastOp)
    /\ lastOp.data.from \in Usernames
    /\ MapHas(userSockets, lastOp.sock)
    /\ lastOp.data.from # userSockets[lastOp.sock].username
    /\ \E i \in 1..Len(emitted) : emitted[i].type = "message"

C13_ReadConfirmationRelayed ==
    (/\ lastOp.op = "messageReceived"
     /\ lastOp.data.hasPayload
     /\ MapHas(userSockets, lastOp.sock)
     /\ MapHas(connectedUsers, lastOp.data.from))
    => emitted = <<[sock |-> connectedUsers[lastOp.data.from],
                    type |-> "messageRead",
                    body |-> [messageId |-> lastOp.data.messageId,
                              readBy |-> userSockets[lastOp.sock].username,
                              timestamp |-> Now]]>>

\* with three connections open, one of them confirmed a message of an
\* identity bound to another one
C13_Witness ==
    /\ lastOp.op = "messageReceived"
    /\ lastOp.data.hasPayload
    /\ lastOp.data.messageId = "m1"
    /\ MapHas(userSockets, lastOp.sock)
    /\ \E hS \in Handles \ {lastOp.sock} :
          /\ Bound(lastOp.data.from, hS)
          /\ userSockets[lastOp.sock].username # lastOp.data.from
          /\ Len(emitted) = 1 /\ emitted[1].sock = hS
    /\ \A h \in Handles : sockets[h] = "open"

\* C14: a messageReceived from a connection without user data, or naming a
\* sender that is not in connectedUsers, emits no event on any connection
\* and changes neither Map nor any socket; and a messageRead event is
\* emitted by the handling of a messageReceived only, never by a later
\* event such as the identification of the sender.
C14_ReadConfirmationDiscarded ==
    [][/\ (/\ lastOp'.op = "messageReceived"
           /\ \/ ~MapHas(userSockets, lastOp'.sock)
              \/ ~lastOp'.data.hasPayload
              \/ ~MapHas(connectedUsers, lastOp'.data.from))
          => /\ emitted' = <<>>
             /\ connectedUsers' = connectedUsers
             /\ userSockets' = userSockets
             /\ sockets' = sockets
       /\ \A i \in 1..Len(emitted') :
             emitted'[i].type = "messageRead"
               => lastOp'.op = "messageReceived"]_vars

\* an identified connection confirmed a message of an identity that is not
\* in the table, while another connection was open
C14_Witness ==
    /\ lastOp.op = "messageReceived"
    /\ lastOp.data.hasPayload
    /\ lastOp.data.from \in Usernames
    /\ MapHas(userSockets, lastOp.sock)
    /\ ~MapHas(connectedUsers, lastOp.data.from)
    /\ \E h \in Handles \ {lastOp.sock} : sockets[h] = "open"
    /\ emitted = <<>>

\* C15: a typing {to, isTyping} from a connection the router holds identity
\* A for, with `to` in connectedUsers, emits one event only: userTyping
\* {from: A, isTyping} with the same isTyping value, for the handle `to` is
\* bound to; every such call is relayed.
C15_TypingRelayed ==
    (/\ lastOp.op = "typing"
     /\ lastOp.data.hasPayload
     /\ MapHas(userSockets, lastOp.sock)
     /\ MapHas(connectedUsers, lastOp.data.to))
    => emitted = <<[sock |-> connectedUsers[lastOp.data.to],
                    type |-> "userTyping",
                    body |-> [from |-> userSockets[lastOp.sock].username,
                              isTyping |-> lastOp.data.isTyping]]>>

\* with three connections open, one of them signalled the end of typing to
\* an identity bound to another one
C15_Witness ==
    /\ lastOp.op = "typing"
    /\ lastOp.data.hasPayload
    /\ ~lastOp.data.isTyping
    /\ MapHas(userSockets, lastOp.sock)
    /\ \E hR \in Handles \ {lastOp.sock} :
          /\ Bound(lastOp.data.to, hR)
          /\ Len(emitted) = 1 /\ emitted[1].sock = hR
    /\ \A h \in Handles : sockets[h] = "open"

\* C16: a typing signal from an identified connection to an identity that
\* is not in connectedUsers emits no event on any connection (no error
\* either) and changes neither Map.
C16_TypingSilence ==
    [][(/\ lastOp'.op = "typing"
        /\ lastOp'.data.hasPayload
        /\ MapHas(userSockets, lastOp'.sock)
        /\ ~MapHas(connectedUsers, lastOp'.data.to))
        => /\ emitted' = <<>>
           /\ connectedUsers' = connectedUsers
           /\ userSockets' = userSockets]_vars

\* an identified connection signalled typing to an identity that is not in
\* the table, while another connection was open
C16_Witness ==
    /\ lastOp.op = "typing"
    /\ lastOp.data.hasPayload
    /\ lastOp.data.isTyping
    /\ lastOp.data.to \in Usernames
    /\ MapHas(userSockets, lastOp.sock)
    /\ ~MapHas(connectedUsers, lastOp.data.to)
    /\ \E h \in Handles \ {lastOp.sock} : sockets[h] = "open"
    /\ emitted = <<>>

\* C17: a typing signal from a connection the router holds no user data for
\* emits no event on any connection (no userTyping, no error) and changes
\* neither Map, also when the named recipient is connected.
C17_UnidentifiedTypingDiscarded ==
    [][(lastOp'.op = "typing" /\ ~MapHas(userSockets, lastOp'.sock))
        => /\ emitted' = <<>>
           /\ connectedUsers' = connectedUsers
           /\ userSockets' = userSockets]_vars

\* an unidentified connection signalled typing to an identity bound to
\* another open connection
C17_Witness ==
    /\ lastOp.op = "typing"
    /\ lastOp.data.hasPayload
    /\ ~MapHas(userSockets, lastOp.sock)
    /\ \E hR \in Handles \ {lastOp.sock} :
          Bound(lastOp.data.to, hR) /\ sockets[hR] = "open"
    /\ emitted = <<>>

\* ------------------------------------------------------------------------
\* Presence queries and the frame of the table
\* ------------------------------------------------------------------------

\* C18: in every reachable state the count of connected identities is the
\* number of identities the names query returns and isUserOnline(u) holds
\* exactly for the identities of that set; the responses of the two status
\* endpoints report the table as it is when they are called; and with alice
\* and bob identified on two connections the status response reports
\* connectedUsers = 2 and the set {alice, bob}.
C18_QueriesAgree ==
    /\ getConnectedUsersCount = Cardinality(getConnectedUsernames)
    /\ \A u \in Usernames : isUserOnline(u) <=> u \in getConnectedUsernames
    /\ lastOp.op = "status"
         => /\ lastOp.response.connectedUsernames = DOMAIN connectedUsers
            /\ lastOp.response.connectedUsers
                 = Cardinality(lastOp.response.connectedUsernames)
            /\ (\E hA, hB \in Handles :
                   hA # hB /\ Bound("alice", hA) /\ Bound("bob", hB))
                 => /\ lastOp.response.connectedUsers = 2
                    /\ lastOp.response.connectedUsernames = {"alice", "bob"}
    /\ lastOp.op = "userStatus"
         => (lastOp.response.isOnline
               <=> lastOp.response.username \in DOMAIN connectedUsers)

\* the status was queried with alice and bob identified on two open
\* connections while a third socket still carries user data
C18_Witness ==
    /\ lastOp.op = "status"
    /\ \E hA, hB \in Handles :
          /\ hA # hB
          /\ Bound("alice", hA) /\ Bound("bob", hB)
          /\ sockets[hA] = "open" /\ sockets[hB] = "open"
    /\ MapSize(userSockets) = 3
    /\ lastOp.response.connectedUsers = 2

\* C19: the handling of a sendMessage, typing, messageReceived, transport
\* error, presence query or broadcast leaves connectedUsers and userSockets
\* as they were, whatever its outcome.
C19_ReadOnlyOperations ==
    [][lastOp'.op \in {"sendMessage", "typing", "messageReceived", "error",
                       "status", "userStatus", "broadcast"}
        => /\ connectedUsers' = connectedUsers
           /\ userSockets' = userSockets]_vars

\* the transport of a socket bound to an identity reported an error while
\* another identity was bound to another socket
C19_Witness ==
    /\ lastOp.op = "error"
    /\ MapHas(userSockets, lastOp.sock)
    /\ Bound(userSockets[lastOp.sock].username, lastOp.sock)
    /\ MapSize(connectedUsers) = 2

\* C20: once the router holds an identity for socket h, no step other than
\* the disconnection of h changes it.
C20_IdentityImmutable ==
    [][\A h \in Handles :
          (MapHas(userSockets, h)
             /\ ~(lastOp'.op = "disconnect" /\ lastOp'.sock = h))
          => /\ MapHas(userSockets', h)
             /\ userSockets'[h] = userSockets[h]]_vars

\* ------------------------------------------------------------------------
\* Replacement of a binding
\* ------------------------------------------------------------------------

\* the last event handled is an authenticate with a usable username
ValidIdentify(op) ==
    /\ op.op = "authenticate"
    /\ op.data.hasPayload
    /\ ~Falsy(op.data.username)

\* C21: when an authenticate for a name arrives on a socket other than the
\* one H1 the name is bound to, H1 has no entry in either Map afterwards,
\* H1 is not closed by the step, and every sendMessage of H1 would be
\* answered with the error "Not authenticated".
C21_SupersededHandleDropped ==
    [][\A H1 \in Handles :
          (/\ ValidIdentify(lastOp')
           /\ MapHas(connectedUsers, lastOp'.data.username)
           /\ connectedUsers[lastOp'.data.username] = H1
           /\ H1 # lastOp'.sock)
          => /\ ~MapHas(userSockets', H1)
             /\ \A u \in DOMAIN connectedUsers' : connectedUsers'[u] # H1
             /\ sockets'[H1] = sockets[H1]
             /\ \A m \in SendInputs, g \in GeneratedIds :
                   SendEmitted(H1, m, g)'
                     = <<[sock |-> H1, type |-> "error",
                          body |-> [error |-> "Not authenticated"]]>>]_vars

\* C22: an authenticate for a name that arrives on socket H2 while the name
\* is bound to another socket H1 emits one event only, the authenticated
\* acknowledgement on H2: nothing is emitted on H1, and no socket is closed.
C22_SilentReplacement ==
    [][(/\ ValidIdentify(lastOp')
        /\ MapHas(connectedUsers, lastOp'.data.username)
        /\ connectedUsers[lastOp'.data.username] # lastOp'.sock)
        => /\ emitted' = <<[sock |-> lastOp'.sock, type |-> "authenticated",
                            body |-> [success |-> TRUE,
                                      username |-> lastOp'.data.username]]>>
           /\ sockets' = sockets]_vars

\* a name bound to an open socket was claimed on another socket: the first
\* socket is still open and still carries the name
C22_Witness ==
    /\ ValidIdentify(lastOp)
    /\ Bound(lastOp.data.username, lastOp.sock)
    /\ \E H1 \in Handles \ {lastOp.sock} :
          /\ sockets[H1] = "open"
          /\ MapHas(userSockets, H1)
          /\ userSockets[H1].username = lastOp.data.username
    /\ Len(emitted) = 1
    /\ emitted[1].sock = lastOp.sock

\* an event the router relays to the identity it is addressed to
Relayed(events) ==
    SelectSeq(events,
              LAMBDA e : e.type \in {"message", "userTyping", "messageRead"})

\* the last event handled is a message, a typing signal or a read
\* confirmation addressed to identity u
AddressedTo(op, u) ==
    \/ WellFormedSend(op) /\ op.data.to = u
    \/ op.op = "typing" /\ op.data.hasPayload /\ op.data.to = u
    \/ op.op = "messageReceived" /\ op.data.hasPayload /\ op.data.from = u

\* the valid sendMessage payloads that differ in what the router looks at:
\* the recipient, and whether the client supplied an id
ValidSends ==
    {m \in SendInputs :
        /\ m.hasPayload
        /\ m.to \in Usernames
        /\ m.encryptedContent = "ct1"
        /\ m.timestamp = "t1"
        /\ m.from = UNDEFINED}

\* with identity u bound to open socket H2 while open socket H1 was
\* identified as u too, what was relayed for an event addressed to u is one
\* event on H2
RoutedToBinding ==
    (lastOp.op \in {"sendMessage", "typing", "messageReceived"}
       /\ MapHas(userSockets, lastOp.sock))
    => \A u \in Usernames :
         AddressedTo(lastOp, u)
         => \A H1, H2 \in Handles :
              (/\ H1 # H2
               /\ sockets[H1] = "open" /\ sockets[H2] = "open"
               /\ MapHas(userSockets, H1) /\ userSockets[H1].username = u
               /\ Bound(u, H2))
              => /\ Len(Relayed(emitted)) = 1
                 /\ Relayed(emitted)[1].sock = H2

C24_TransportErrorFrame ==
    [][lastOp'.op = "error"
        => /\ connectedUsers' = connectedUsers
           /\ userSockets' = userSockets
           /\ sockets' = sockets]_vars

\* the transport of a superseded socket reported an error while its
\* identity was bound to another open socket
C24_Witness ==
    /\ lastOp.op = "error"
    /\ MapHas(userSockets, lastOp.sock)
    /\ \E h \in Handles \ {lastOp.sock} :
          Bound(userSockets[lastOp.sock].username, h) /\ sockets[h] = "open"

\* the last event handled is a client event without a payload object or
\* without one of the fields of its payload
MalformedInput(op) ==
    \/ op.op = "authenticate"
         /\ (~op.data.hasPayload \/ Falsy(op.data.username))
    \/ MalformedSend(op)
    \/ op.op = "typing" /\ (~op.data.hasPayload \/ Falsy(op.data.to))
    \/ op.op = "messageReceived"
         /\ (\/ ~op.data.hasPayload
             \/ Falsy(op.data.from)
             \/ Falsy(op.data.messageId))

\* C25: the handling of a malformed client event on socket c emits events
\* on c only, none on any other socket, and leaves both Maps as they were.
C25_FailuresScoped ==
    [][MalformedInput(lastOp')
        => /\ \A i \in 1..Len(emitted') : emitted'[i].sock = lastOp'.sock
           /\ connectedUsers' = connectedUsers
           /\ userSockets' = userSockets]_vars

\* the last event handled is an authenticate or a sendMessage that was
\* answered with an authError or an error event
FailedRequest(op, events) ==
    /\ op.op \in {"authenticate", "sendMessage"}
    /\ \E i \in 1..Len(events) : events[i].type \in {"authError", "error"}

\* C26: after an authenticate or a sendMessage on socket h was answered
\* with an authError or an error event, h is still open, every valid
\* authenticate on h succeeds and yields the same table and the same
\* acknowledgement as it would have before the failed request, and every
\* valid sendMessage on h is answered with the same events as it would have been
\* before the failed request.
C26_ValidationErrorsNonFatal ==
    [][FailedRequest(lastOp', emitted')
        => \A h \in Handles :
             lastOp'.sock = h
             => /\ sockets'[h] = "open"
                /\ \A a \in AuthInputs :
                      (a.hasPayload /\ ~Falsy(a.username))
                      => /\ AuthEmitted(h, a)'
                              = <<[sock |-> h, type |-> "authenticated",
                                   body |-> [success |-> TRUE,
                                             username |-> a.username]]>>
                         /\ AuthConnectedUsers(h, a)'
                              = AuthConnectedUsers(h, a)
                         /\ AuthUserSockets(h, a)' = AuthUserSockets(h, a)
                         /\ AuthUserSockets(h, a)'[h].username = a.username
                /\ \A m \in ValidSends : \A g \in GeneratedChoices(m) :
                      SendEmitted(h, m, g)' = SendEmitted(h, m, g)]_vars

\* an authenticate without a username was refused on a socket bound to an
\* identity, while another identity was bound to another open socket
C26_Witness ==
    /\ lastOp.op = "authenticate"
    /\ lastOp.data.hasPayload /\ Falsy(lastOp.data.username)
    /\ Len(emitted) = 1 /\ emitted[1].type = "authError"
    /\ sockets[lastOp.sock] = "open"
    /\ MapHas(userSockets, lastOp.sock)
    /\ Bound(userSockets[lastOp.sock].username, lastOp.sock)
    /\ \E h \in Handles \ {lastOp.sock} : \E u \in Usernames :
          Bound(u, h) /\ sockets[h] = "open"

\* ------------------------------------------------------------------------
\* Order and number of deliveries
\* ------------------------------------------------------------------------

\* C27: the sendMessage packet handled on socket h is always the oldest one
\* waiting on h, and the events of a packet are emitted in the step that
\* handles it: every message and every receipt emitted in that step carries
\* the id of that packet, and with the recipient in the table they are the
\* message for the recipient's socket followed by the receipt on h. So the
\* messages of two packets of one socket reach the recipient, and their
\* receipts the sender, in the order the packets arrived.
C27_ArrivalOrder ==
    [][\A h \in Handles :
          (lastOp = NoOp /\ lastOp'.op = "sendMessage" /\ lastOp'.sock = h)
          => /\ inbox[h] # <<>>
             /\ lastOp'.data = Head(inbox[h])
             /\ inbox'[h] = Tail(inbox[h])
             /\ \A i \in 1..Len(emitted') :
                   /\ emitted'[i].type = "message"
                        => emitted'[i].body.id = Head(inbox[h]).id
                   /\ emitted'[i].type = "messageDelivered"
                        => emitted'[i].body.messageId = Head(inbox[h]).id
             /\ (MapHas(userSockets, h)
                   /\ MapHas(connectedUsers, Head(inbox[h]).to))
                => /\ Len(emitted') = 2
                   /\ emitted'[1].type = "message"
                   /\ emitted'[1].sock = connectedUsers[Head(inbox[h]).to]
                   /\ emitted'[2].type = "messageDelivered"
                   /\ emitted'[2].sock = h]_vars

\* of two packets for the same recipient that waited on a socket, the one
\* that arrived first was handled and delivered while the second waits
C27_Witness ==
    /\ lastOp.op = "sendMessage"
    /\ lastOp.data.id = "m1"
    /\ Len(inbox[lastOp.sock]) = 1
    /\ inbox[lastOp.sock][1].id = "m2"
    /\ inbox[lastOp.sock][1].to = lastOp.data.to
    /\ Len(emitted) = 2
    /\ emitted[1].type = "message"
    /\ emitted[1].sock # lastOp.sock
    /\ emitted[2].body.status = "delivered"

\* C28: the events of a handler run hold at most one message event, and a
\* message event is emitted only by the handling of a valid sendMessage of
\* an identified socket whose recipient is in the table at that time; it
\* carries the recipient and the content of that call. No other event (an
\* authenticate of the recipient, a later call) emits a message, so a
\* message that met an absent recipient is not delivered afterwards.
C28_AtMostOnce ==
    /\ Len(OfType(emitted, "message")) <= 1
    /\ \A i \in 1..Len(emitted) :
          emitted[i].type = "message"
            => /\ WellFormedSend(lastOp)
               /\ MapHas(userSockets, lastOp.sock)
               /\ MapHas(connectedUsers, lastOp.data.to)
               /\ emitted[i].sock = connectedUsers[lastOp.data.to]
               /\ emitted[i].body.to = lastOp.data.to
               /\ emitted[i].body.content = lastOp.data.encryptedContent
    /\ (WellFormedSend(lastOp) /\ MapHas(userSockets, lastOp.sock)
          /\ ~MapHas(connectedUsers, lastOp.data.to))
         => OfType(emitted, "message") = <<>>

\* a message was sent to an identity that is not in the table while an
\* open connection that is not identified could still claim that identity
C28_Witness ==
    /\ WellFormedSend(lastOp)
    /\ MapHas(userSockets, lastOp.sock)
    /\ lastOp.data.to \in Usernames
    /\ ~MapHas(connectedUsers, lastOp.data.to)
    /\ OfType(emitted, "message") = <<>>
    /\ Len(emitted) = 1
    /\ \E h \in Handles \ {lastOp.sock} :
          sockets[h] = "open" /\ ~MapHas(userSockets, h)

\* C29: the handling of a disconnect emits no event on any connection.
C29_DisconnectSilent ==
    lastOp.op = "disconnect" => emitted = <<>>

\* a socket was disconnected while two other sockets were open and
\* identified, one of them bound to an identity
C29_Witness ==
    /\ lastOp.op = "disconnect"
    /\ sockets[lastOp.sock] = "closed"
    /\ emitted = <<>>
    /\ \E h1, h2 \in Handles \ {lastOp.sock} :
          /\ h1 # h2
          /\ sockets[h1] = "open" /\ sockets[h2] = "open"
          /\ MapHas(userSockets, h1) /\ MapHas(userSockets, h2)
          /\ Bound(userSockets[h1].username, h1)

\* ------------------------------------------------------------------------
\* Payload opacity
\* ------------------------------------------------------------------------

\* the events with the content of the forwarded messages blanked
Redact(events) ==
    [i \in 1..Len(events) |->
        IF events[i].type = "message"
        THEN [events[i] EXCEPT !.body.content = "<content>"]
        ELSE events[i]]

\* C30: the handling of a sendMessage with a non-empty content emits, up to
\* the content field of the forwarded message, the events that the same
\* call with any other non-empty content would have emitted in the same
\* state, on the same connections; it leaves both Maps as they were; and
\* the content field of the forwarded message is the content sent.
C30_PayloadOpacity ==
    [][(/\ lastOp = NoOp
        /\ lastOp'.op = "sendMessage"
        /\ lastOp'.data.hasPayload
        /\ ~Falsy(lastOp'.data.encryptedContent))
        => /\ \A h \in Handles :
                lastOp'.sock = h
                => \A c \in Contents : \E g \in GeneratedIds :
                     Redact(emitted')
                       = Redact(SendEmitted(
                            h, [lastOp'.data EXCEPT !.encryptedContent = c], g))
           /\ \A i \in 1..Len(emitted') :
                emitted'[i].type = "message"
                  => emitted'[i].body.content = lastOp'.data.encryptedContent
           /\ connectedUsers' = connectedUsers
           /\ userSockets' = userSockets]_vars

\* the content ct2 was forwarded to the socket of the recipient
C30_Witness ==
    /\ WellFormedSend(lastOp)
    /\ lastOp.data.encryptedContent = "ct2"
    /\ Len(emitted) = 2
    /\ emitted[1].type = "message"
    /\ emitted[1].sock # lastOp.sock
    /\ emitted[1].body.content = "ct2"

\* ------------------------------------------------------------------------
\* Administrative broadcast
\* ------------------------------------------------------------------------

\* C32: a broadcast request with a non-empty message is answered 200 and
\* emits exactly one systemBroadcast event, carrying that message, to each
\* connection that is open and nothing else; a broadcast request without a
\* message is answered 400 and emits nothing.
C32_BroadcastFanOut ==
    lastOp.op = "broadcast"
    => IF Falsy(lastOp.data.message)
       THEN emitted = <<>> /\ lastOp.status = 400
       ELSE /\ lastOp.status = 200
            /\ \A h \in Handles :
                  Len(OnSock(emitted, h))
                    = IF sockets[h] = "open" THEN 1 ELSE 0
            /\ \A i \in 1..Len(emitted) :
                  /\ emitted[i].type = "systemBroadcast"
                  /\ emitted[i].body.message = lastOp.data.message

\* a broadcast reached two open connections, one of them not identified,
\* while a third connection was closed
C32_Witness ==
    /\ lastOp.op = "broadcast"
    /\ ~Falsy(lastOp.data.message)
    /\ Len(emitted) = 2
    /\ \E h1, h2, h3 \in Handles :
          /\ h1 # h2
          /\ sockets[h1] = "open" /\ MapHas(userSockets, h1)
          /\ sockets[h2] = "open" /\ ~MapHas(userSockets, h2)
          /\ sockets[h3] = "closed"
          /\ OnSock(emitted, h1) # <<>> /\ OnSock(emitted, h2) # <<>>

\* ------------------------------------------------------------------------
\* Order and number of the events of one send
\* ------------------------------------------------------------------------

\* C33: among the events of one handler run, every delivered receipt is
\* preceded by a message event with the id of the receipt, emitted for the
\* send being handled; no delivered receipt is emitted without one.
C33_MessageBeforeReceipt ==
    \A i \in 1..Len(emitted) :
        (emitted[i].type = "messageDelivered"
           /\ emitted[i].body.status = "delivered")
        => /\ lastOp.op = "sendMessage"
           /\ emitted[i].sock = lastOp.sock
           /\ \E j \in 1..(i - 1) :
                 /\ emitted[j].type = "message"
                 /\ emitted[j].body.id = emitted[i].body.messageId
                 /\ emitted[j].body.to = lastOp.data.to

\* a send to a recipient on another connection: the message first, the
\* delivered receipt second
C33_Witness ==
    /\ WellFormedSend(lastOp)
    /\ Len(emitted) = 2
    /\ emitted[1].type = "message" /\ emitted[1].sock # lastOp.sock
    /\ emitted[2].type = "messageDelivered"
    /\ emitted[2].body.status = "delivered"
    /\ emitted[2].sock = lastOp.sock

\* the outcome events of a send: the errors and receipts on one connection
Outcomes(events, h) ==
    SelectSeq(OnSock(events, h),
              LAMBDA e : e.type \in {"error", "messageDelivered"})

\* C36: the handling of a sendMessage, from any connection and with any
\* input, emits exactly one event of type error or messageDelivered on the
\* connection of the sender; an error comes with no message event, and a
\* receipt has status delivered when a message event was emitted in that
\* handling and status failed when none was.
C36_ExactlyOneOutcome ==
    lastOp.op = "sendMessage"
    => /\ Len(Outcomes(emitted, lastOp.sock)) = 1
       /\ LET out == Outcomes(emitted, lastOp.sock)[1]
              relayed == OfType(emitted, "message") # <<>>
          IN  IF out.type = "error" THEN ~relayed
              ELSE out.body.status
                     = IF relayed THEN "delivered" ELSE "failed"

\* a well-formed send to an absent recipient: one failed receipt and
\* nothing else
C36_Witness ==
    /\ lastOp.op = "sendMessage"
    /\ MapHas(userSockets, lastOp.sock)
    /\ WellFormedSend(lastOp)
    /\ ~MapHas(connectedUsers, lastOp.data.to)
    /\ Len(emitted) = 1
    /\ emitted[1].type = "messageDelivered"
    /\ emitted[1].body.status = "failed"
    /\ emitted[1].sock = lastOp.sock

\* ------------------------------------------------------------------------
\* Disconnect of the only connection of an identity
\* ------------------------------------------------------------------------

\* C34: when connection h, the only handle the table relates to identity A
\* (A maps to h and no other handle maps to A), disconnects, then in the
\* state right after that step h has no entry, A is not online, A is absent
\* from the connected identities, the count is one less than before, and
\* every well-formed send addressed to A from an identified connection
\* would be answered with one failed receipt and nothing else; and A gets
\* an entry again only by an authenticate naming A.
C34_DisconnectRemovesBinding ==
    [][/\ \A u \in Usernames : \A h \in Handles :
            (/\ lastOp = NoOp
             /\ lastOp'.op = "disconnect" /\ lastOp'.sock = h
             /\ MapHas(connectedUsers, u) /\ connectedUsers[u] = h
             /\ HandlesOf(u) = {h})
            => /\ ~MapHas(userSockets', h)
               /\ ~isUserOnline(u)'
               /\ u \notin getConnectedUsernames'
               /\ getConnectedUsersCount' = getConnectedUsersCount - 1
               /\ \A s \in Handles : \A m \in ValidSends :
                     (MapHas(userSockets', s) /\ m.to = u)
                     => \A g \in GeneratedChoices(m) :
                          SendEmitted(s, m, g)'
                            = SocketEmit(s, "messageDelivered",
                                 FailedReceipt(ResolveId(m.id, g)))
       /\ \A u \in Usernames :
            (~MapHas(connectedUsers, u) /\ MapHas(connectedUsers', u))
            => /\ lastOp'.op = "authenticate"
               /\ lastOp'.data.username = u]_vars

\* ------------------------------------------------------------------------
\* Target of a forwarded message
\* ------------------------------------------------------------------------

\* C35: a message event addressed to identity u is emitted only to a
\* connection that is open and whose own identity is u at that moment, and
\* a delivered receipt is emitted only when the message of that send was
\* emitted to such a connection.
C35_ForwardedToOwnIdentity ==
    /\ \A i \in 1..Len(emitted) :
          emitted[i].type = "message"
          => /\ sockets[emitted[i].sock] = "open"
             /\ MapHas(userSockets, emitted[i].sock)
             /\ userSockets[emitted[i].sock].username = emitted[i].body.to
    /\ \A i \in 1..Len(emitted) :
          (emitted[i].type = "messageDelivered"
             /\ emitted[i].body.status = "delivered")
          => \E j \in 1..Len(emitted) :
                /\ emitted[j].type = "message"
                /\ emitted[j].body.id = emitted[i].body.messageId
                /\ sockets[emitted[j].sock] = "open"

\* ------------------------------------------------------------------------
\* Idempotence of the disconnect handling
\* ------------------------------------------------------------------------

\* C40: in every state, handling a disconnect for a connection whose
\* disconnect was handled before (whatever was handled in between), or for
\* an open connection that holds no identity, would leave both Maps of the
\* Presence Table as they are.
C40_DisconnectIdempotent ==
    \A h \in Handles :
        (\/ sockets[h] = "closed"
         \/ sockets[h] = "open" /\ ~MapHas(userSockets, h))
        => /\ DisconnectConnectedUsers(h) = connectedUsers
           /\ DisconnectUserSockets(h) = userSockets

\* two disconnects were handled while a third connection stays bound to
\* the only identity of the table
C40_Witness ==
    /\ lastOp.op = "disconnect"
    /\ \E u \in Usernames : \E k, c \in Handles \ {lastOp.sock} :
          /\ k # c
          /\ sockets[c] = "closed"
          /\ sockets[k] = "open" /\ Bound(u, k)
          /\ getConnectedUsersCount = 1

\* ------------------------------------------------------------------------
\* Independence of two sends
\* ------------------------------------------------------------------------

\* connection h2 is identified under another name than h1 and could make
\* the well-formed send m2, addressed to another recipient than the send
\* being handled
OtherSend(h1, h2, m2) ==
    /\ h2 # h1
    /\ sockets[h2] = "open"
    /\ MapHas(userSockets, h1) /\ MapHas(userSockets, h2)
    /\ SenderName(h2) # SenderName(h1)
    /\ m2.to # lastOp'.data.to

\* C31: when a well-formed send of an identified sender is handled, then
\* for every send of another identified sender to another recipient:
\* handling the two in either order leaves the Presence Table the same and
\* puts on every connection the same events in the same order.
C31_SendsCommute ==
    [][\A h1 \in Handles :
          (lastOp = NoOp /\ WellFormedSend(lastOp') /\ lastOp'.sock = h1)
          => \A h2 \in Handles : \A m2 \in ValidSends :
                OtherSend(h1, h2, m2)
                => \A g \in GeneratedChoices(m2) :
                     /\ connectedUsers' = connectedUsers
                     /\ userSockets' = userSockets
                     /\ \A c \in Handles :
                           OnSock(emitted' \o SendEmitted(h2, m2, g)', c)
                             = OnSock(SendEmitted(h2, m2, g) \o emitted', c)
      ]_vars

\* C31 (amended): handling the two sends in either order leaves the
\* Presence Table the same and gives each call the same events, so that
\* every connection gets the same events; the order of the events is the
\* same on every connection that only one of the two calls emits on.
C31_SendsCommuteUpToInterleaving ==
    [][\A h1 \in Handles :
          (lastOp = NoOp /\ WellFormedSend(lastOp') /\ lastOp'.sock = h1)
          => /\ connectedUsers' = connectedUsers
             /\ userSockets' = userSockets
             /\ \A h2 \in Handles : \A m2 \in ValidSends :
                  OtherSend(h1, h2, m2)
                  => \A g \in GeneratedChoices(m2) :
                       LET before == SendEmitted(h2, m2, g)
                           after == SendEmitted(h2, m2, g)'
                       IN  /\ after = before
                           /\ \A c \in Handles :
                                (\/ OnSock(emitted', c) = <<>>
                                 \/ OnSock(before, c) = <<>>)
                                => OnSock(emitted' \o after, c)
                                     = OnSock(before \o emitted', c)
      ]_vars

\* alice's send to bob was forwarded to bob's connection while bob, on that
\* connection, could send to alice: the two calls emit on the same two
\* connections
C31_Witness ==
    /\ WellFormedSend(lastOp)
    /\ Len(emitted) = 2
    /\ emitted[1].type = "message"
    /\ emitted[1].sock # lastOp.sock
    /\ Bound(lastOp.data.to, emitted[1].sock)
    /\ sockets[emitted[1].sock] = "open"
    /\ MapHas(userSockets, lastOp.sock)
    /\ Bound(SenderName(lastOp.sock), lastOp.sock)
    /\ SenderName(lastOp.sock) # lastOp.data.to

\* ------------------------------------------------------------------------
\* Read confirmations
\* ------------------------------------------------------------------------

\* C37: a messageRead event {messageId: m, readBy: R} is emitted on the
\* connection of an identity S only if a message event with id m and from
\* S was forwarded before to a connection bound to identity R.
C37_ReadOnlyForForwarded ==
    \A i \in 1..Len(emitted) :
        emitted[i].type = "messageRead"
        => \E S \in Usernames :
              /\ MapHas(connectedUsers, S)
              /\ connectedUsers[S] = emitted[i].sock
              /\ \E f \in forwarded :
                    /\ f.id = emitted[i].body.messageId
                    /\ f.from = S
                    /\ f.readBy = emitted[i].body.readBy

\* C37 (amended): a messageRead event {messageId: m, readBy: R} is emitted
\* only in the handling of a messageReceived {messageId: m, from: S} that
\* came from a connection identified as R, and on the connection the table
\* binds to S.
C37_ReadOnlyOnConfirmation ==
    \A i \in 1..Len(emitted) :
        emitted[i].type = "messageRead"
        => /\ lastOp.op = "messageReceived"
           /\ lastOp.data.hasPayload
           /\ MapHas(userSockets, lastOp.sock)
           /\ emitted[i].body.readBy = SenderName(lastOp.sock)
           /\ emitted[i].body.messageId = lastOp.data.messageId
           /\ MapHas(connectedUsers, lastOp.data.from)
           /\ emitted[i].sock = connectedUsers[lastOp.data.from]

\* bob confirmed the message m1 that alice's connection had sent him: the
\* confirmation was relayed to alice's connection
C37_Witness ==
    /\ lastOp.op = "messageReceived"
    /\ Len(emitted) = 1
    /\ emitted[1].type = "messageRead"
    /\ emitted[1].sock # lastOp.sock
    /\ [id |-> emitted[1].body.messageId,
        from |-> IdentityOf(emitted[1].sock),
        readBy |-> emitted[1].body.readBy] \in forwarded

\* ------------------------------------------------------------------------
\* Chat client
\* ------------------------------------------------------------------------

\* C38: once a receipt has set the status of the sent message to delivered
\* or failed, no step of the client changes it to sent or sending.
C38_StatusNeverRegresses ==
    [][client.status \in {"delivered", "failed"}
        => client'.status \notin {"sent", "sending"}]_vars

\* C39: when the router has relayed a typing signal of the chat partner to
\* the user of the client, and the connection of the client is open and
\* bound to that user, then after the events reached the client its
\* otherUserTyping flag equals the relayed isTyping value.
C39_TypingEndToEnd ==
    [][(/\ lastOp.op = "typing"
        /\ lastOp' = NoOp
        /\ lastOp.data.hasPayload
        /\ lastOp.data.to = CurrentUser
        /\ MapHas(userSockets, lastOp.sock)
        /\ SenderName(lastOp.sock) = ChatUser
        /\ sockets[ClientSock] = "open"
        /\ Bound(CurrentUser, ClientSock)
        /\ OnSock(emitted, ClientSock) # <<>>)
        => client'.otherUserTyping = lastOp.data.isTyping]_vars

====
